---- MODULE Spec2Model ----
(***************************************************************************)
(* A model of two parts of SU2:                                            *)
(*   - CFluidCantera (SU2_CFD/src/fluid/CFluidCantera.cpp), the            *)
(*     multicomponent fluid-property model, under the specification        *)
(*     SpecFluid;                                                          *)
(*   - the per-point, per-marker and whole-field accessors of CDriver       *)
(*     (SU2_CFD/src/python_wrapper_structure.cpp), under the specification *)
(*     SpecDriver.                                                         *)
(***************************************************************************)
EXTENDS Integers, Sequences, FiniteSets, TLC

(***************************************************************************)
(* su2double.  A finite value is an exact rational <<n, d>> in lowest      *)
(* terms with d > 0.  The result of a division by zero or of the square    *)
(* root of a negative number (an IEEE infinity or NaN) is the one value    *)
(* NonFinite, and every operation with such an operand yields it again.    *)
(* An array entry that was never written holds Unfilled; an operation that *)
(* reads it yields NonFinite as well.                                      *)
(***************************************************************************)
NonFinite == <<1, 0>>
Unfilled == <<0, 0>>

IsFinite(q) == q[2] # 0

Abs(x) == IF x < 0 THEN -x ELSE x

RECURSIVE GCD(_, _)
GCD(a, b) == IF b = 0 THEN a ELSE GCD(b, a % b)

\* The rational n/d (d # 0) in lowest terms.
Rat(n, d) ==
  LET g == GCD(Abs(n), Abs(d))
      s == IF d < 0 THEN -1 ELSE 1
  IN  <<(s * n) \div g, (s * d) \div g>>

Num(k) == <<k, 1>>
Zero == Num(0)
One == Num(1)

\* a + b over the least common denominator.
AddFinite(a, b) ==
  LET g == GCD(a[2], b[2])
  IN  Rat(a[1] * (b[2] \div g) + b[1] * (a[2] \div g), (a[2] \div g) * b[2])

\* (n1/d1) * (n2/d2) with n1/d1 and n2/d2 in lowest terms and d1, d2 # 0:
\* cancelling across leaves the product in lowest terms.
MulFinite(n1, d1, n2, d2) ==
  LET g1 == GCD(Abs(n1), Abs(d2))
      g2 == GCD(Abs(n2), Abs(d1))
      n == (n1 \div g1) * (n2 \div g2)
      d == (d1 \div g2) * (d2 \div g1)
  IN  IF n1 = 0 \/ n2 = 0 THEN <<0, 1>>
      ELSE IF d < 0 THEN <<-n, -d>> ELSE <<n, d>>

Neg(a) == <<-a[1], a[2]>>

Add(a, b) ==
  IF IsFinite(a) /\ IsFinite(b) THEN AddFinite(a, b) ELSE NonFinite

Sub(a, b) ==
  IF IsFinite(a) /\ IsFinite(b) THEN AddFinite(a, Neg(b)) ELSE NonFinite

Mul(a, b) ==
  IF IsFinite(a) /\ IsFinite(b)
  THEN MulFinite(a[1], a[2], b[1], b[2]) ELSE NonFinite

\* a / b; a division by zero is not finite.
Div(a, b) ==
  IF IsFinite(a) /\ IsFinite(b) /\ b[1] # 0
  THEN MulFinite(a[1], a[2], b[2], b[1]) ELSE NonFinite

IsPositive(q) == IsFinite(q) /\ q[1] > 0

(***************************************************************************)
(* sqrt and pow.  The square root of a rational that is the square of a    *)
(* rational is exact; any other root is irrational and is rounded down to  *)
(* a multiple of 1/SqrtPrec, as the floating-point sqrt rounds to the      *)
(* precision of its format.                                                *)
(***************************************************************************)
SqrtPrec == 16

\* Newton's iteration for the integer square root, from above.
RECURSIVE ISqrtFrom(_, _)
ISqrtFrom(x, r) ==
  IF (r + x \div r) \div 2 >= r THEN r ELSE ISqrtFrom(x, (r + x \div r) \div 2)

\* The integer square root of x >= 0: the largest r with r * r <= x.
ISqrt(x) == IF x = 0 THEN 0 ELSE ISqrtFrom(x, x)

IsSquare(x) == ISqrt(x) * ISqrt(x) = x

Sqrt(q) ==
  IF ~IsFinite(q) \/ q[1] < 0 THEN NonFinite
  ELSE IF IsSquare(q[1]) /\ IsSquare(q[2]) THEN Rat(ISqrt(q[1]), ISqrt(q[2]))
  ELSE Rat(ISqrt((q[1] * SqrtPrec * SqrtPrec) \div q[2]), SqrtPrec)

\* pow(q, 2)
Pow2(q) == Mul(q, q)

\* pow(q, 0.25)
Pow025(q) == Sqrt(Sqrt(q))

\* pow(q, A) with A = 0.375 = 3/8
Pow0375(q) == Sqrt(Sqrt(Sqrt(Mul(q, Mul(q, q)))))

(***************************************************************************)
(* CFluidCantera: configuration and bounds.                                *)
(***************************************************************************)

\* The capacity of the per-species std::array members (scaled down).
ARRAYSIZE == 3

\* The largest number of transported species a configuration names; with
\* MaxSpecies = ARRAYSIZE the largest mixture exceeds the arrays by one.
MaxSpecies == 3

SpeciesIdx == 0 .. (ARRAYSIZE - 1)

\* A per-species array none of whose entries was written.
EmptyArray == [i \in SpeciesIdx |-> Unfilled]

\* The mixing-viscosity models a configuration can select.
MIXINGVISCOSITYMODEL == {"WILKE", "DAVIDSON"}

\* The species a configuration can describe: molecular weight, specific heat
\* and the constant values of its viscosity, conductivity and diffusivity laws.
SpeciesKinds ==
  { [Molecular_Weight |-> Num(1), Specific_Heat_CpND |-> Num(2),
     Mu_Constant |-> Num(1), Thermal_Conductivity_Constant |-> Num(1),
     Diffusivity_Constant |-> Num(1)],
    [Molecular_Weight |-> Num(4), Specific_Heat_CpND |-> Num(1),
     Mu_Constant |-> Num(4), Thermal_Conductivity_Constant |-> Num(2),
     Diffusivity_Constant |-> Num(2)] }

\* The values a transported scalar (a species mass fraction handed in by the
\* species solver) takes in the model, undershoots and overshoots included.
ScalarValues == { Rat(-1, 3), Zero, Rat(1, 3), One }

\* The temperatures SetTDState_T is called with.
TemperatureValues == { Num(2) }

\* The operating pressures the model is constructed with.
PressureValues == { One }

UNIVERSAL_GAS_CONSTANT == Rat(8314, 1000)

\* The configurations: nSpecies transported species, hence nSpecies + 1
\* species in the mixture, each described by the configuration's option lists.
Configs ==
  UNION { [ nSpecies : {k},
            Kind_MixingViscosityModel : MIXINGVISCOSITYMODEL,
            species : [0 .. k -> SpeciesKinds] ] : k \in 0 .. MaxSpecies }

(***************************************************************************)
(* CFluidCantera: the arithmetic of its member functions.                  *)
(***************************************************************************)

\* f[0] + ... + f[k-1], accumulated in index order as the loops do.
RECURSIVE SumBelow(_, _)
SumBelow(f, k) == IF k = 0 THEN Zero ELSE Add(SumBelow(f, k - 1), f[k - 1])

\* A guard that already refuses a mixture filling the arrays exactly.
TooManySpecies_AtCapacity(n) == n >= ARRAYSIZE

\* The constructor's array-size guard.
TooManySpecies(n) == n > ARRAYSIZE

\* The constructor's loops: entries 0 .. n-1 of a per-species array are set
\* from the configuration.
FillArray(n, values, old) ==
  [i \in SpeciesIdx |-> IF i < n THEN values[i] ELSE old[i]]

\* A first half that gives the last species the sum instead of its complement.
MassFractionsOf_NoComplement(n, val_scalars, old) ==
  [i \in SpeciesIdx |->
     IF i < n - 1 THEN val_scalars[i]
     ELSE IF i = n - 1 THEN SumBelow(val_scalars, n - 1)
     ELSE old[i]]

\* MassToMoleFractions, first half: massFractions.
MassFractionsOf(n, val_scalars, old) ==
  LET val_scalars_sum == SumBelow(val_scalars, n - 1)
  IN  [i \in SpeciesIdx |->
         IF i < n - 1 THEN val_scalars[i]
         ELSE IF i = n - 1 THEN Sub(One, val_scalars_sum)
         ELSE old[i]]

\* A second half that normalises by the plain sum of the mass fractions.
MoleFractionsOf_PlainSum(n, mass, molar, old) ==
  [i \in SpeciesIdx |->
     IF i < n THEN Div(Div(mass[i], molar[i]), SumBelow(mass, n))
     ELSE old[i]]

\* MassToMoleFractions, second half: moleFractions.
MoleFractionsOf(n, mass, molar, old) ==
  LET mixtureMolarMass ==
        SumBelow([iVar \in 0 .. n - 1 |-> Div(mass[iVar], molar[iVar])], n)
  IN  [i \in SpeciesIdx |->
         IF i < n THEN Div(Div(mass[i], molar[i]), mixtureMolarMass)
         ELSE old[i]]

\* The loop that fills laminarViscosity (or laminarThermalConductivity,
\* massDiffusivity) from the per-species law objects: a constant-value law
\* returns its value whatever state it is set to.
EvaluateLaws(n, pointers, old) ==
  [i \in SpeciesIdx |-> IF i < n THEN pointers[i] ELSE old[i]]

WilkePhi(i, j, visc, molar) ==
  Div(Pow2(Add(One, Mul(Sqrt(Div(visc[i], visc[j])),
                        Pow025(Div(molar[j], molar[i]))))),
      Sqrt(Mul(Num(8), Add(One, Div(molar[i], molar[j])))))

\* The inner loop skipping j = i without the else branch: the denominator
\* lacks the species' own mole fraction.
WilkeViscosity_NoDiagonal(n, mole, visc, molar) ==
  LET wilkeDenumerator(i) ==
        SumBelow([j \in 0 .. n - 1 |->
                    IF j # i THEN Mul(mole[j], WilkePhi(i, j, visc, molar))
                    ELSE Zero], n)
      wilkeNumerator(i) == Mul(mole[i], visc[i])
  IN  SumBelow([i \in 0 .. n - 1 |->
                  Div(wilkeNumerator(i), wilkeDenumerator(i))], n)

WilkeViscosity(n, mole, visc, molar) ==
  LET wilkeDenumerator(i) ==
        SumBelow([j \in 0 .. n - 1 |->
                    IF j # i THEN Mul(mole[j], WilkePhi(i, j, visc, molar))
                    ELSE mole[j]], n)
      wilkeNumerator(i) == Mul(mole[i], visc[i])
  IN  SumBelow([i \in 0 .. n - 1 |->
                  Div(wilkeNumerator(i), wilkeDenumerator(i))], n)

DavidsonViscosity(n, mole, visc, molar) ==
  LET mixtureFractionDenumerator ==
        SumBelow([i \in 0 .. n - 1 |-> Mul(mole[i], Sqrt(molar[i]))], n)
      mixtureFractions ==
        [j \in 0 .. n - 1 |->
           Div(Mul(mole[j], Sqrt(molar[j])), mixtureFractionDenumerator)]
      E(i, j) == Div(Mul(Num(2), Mul(Sqrt(molar[i]), Sqrt(molar[j]))),
                     Add(molar[i], molar[j]))
      term(i, j) ==
        Mul(Div(Mul(mixtureFractions[i], mixtureFractions[j]),
                Mul(Sqrt(visc[i]), Sqrt(visc[j]))),
            Pow0375(E(i, j)))
      fluidity ==
        SumBelow([i \in 0 .. n - 1 |->
                    SumBelow([j \in 0 .. n - 1 |-> term(i, j)], n)], n)
  IN  Div(One, fluidity)

WilkeConductivity(n, mole, cond, visc, molar) ==
  LET wilkeDenumerator(i) ==
        SumBelow([j \in 0 .. n - 1 |->
                    IF j # i THEN Mul(mole[j], WilkePhi(i, j, visc, molar))
                    ELSE mole[j]], n)
      wilkeNumerator(i) == Mul(mole[i], cond[i])
  IN  SumBelow([i \in 0 .. n - 1 |->
                  Div(wilkeNumerator(i), wilkeDenumerator(i))], n)

ComputeGasConstant(n, mole, molar, ref) ==
  LET MeanMolecularWeight ==
        SumBelow([i \in 0 .. n - 1 |->
                    Div(Mul(mole[i], molar[i]), Num(1000))], n)
  IN  Div(UNIVERSAL_GAS_CONSTANT, Mul(ref, MeanMolecularWeight))

ComputeMeanSpecificHeatCp(n, heat, mass) ==
  SumBelow([i_scalar \in 0 .. n - 1 |-> Mul(heat[i_scalar], mass[i_scalar])], n)

\* A member function SetTDState_T evaluated, with the value it returned
\* (Unfilled for a void function).
Call(fn, ret) == [fn |-> fn, ret |-> ret]

\* A branch without its else-if: nothing is evaluated unless wilke is set.
MixingRuleCalls_WilkeOnly(w, d, n, mole, visc, molar) ==
  IF w THEN << Call("WilkeViscosity", WilkeViscosity(n, mole, visc, molar)) >>
  ELSE << >>

\* The mixing rule SetTDState_T evaluates under the flags wilke and davidson.
MixingRuleCalls(w, d, n, mole, visc, molar) ==
  IF w THEN << Call("WilkeViscosity", WilkeViscosity(n, mole, visc, molar)) >>
  ELSE IF d
       THEN << Call("DavidsonViscosity", DavidsonViscosity(n, mole, visc, molar)) >>
       ELSE << >>

\* The mixture viscosity after the branch: the evaluated rule's result is
\* assigned to Mu; with no rule evaluated Mu is not assigned.
MixtureViscosity(rules, oldMu) ==
  IF Len(rules) = 0 THEN oldMu ELSE rules[Len(rules)].ret

(***************************************************************************)
(* State.                                                                  *)
(***************************************************************************)
VARIABLES
  \* CFluidCantera
  config,                       \* the CConfig the model is constructed from
  pc,                           \* "new", "ready", or "error" after SU2_MPI::Error
  errorMsg,                     \* the message SU2_MPI::Error was called with
  n_species_mixture, wilke, davidson,
  Gas_Constant, Pressure_Thermodynamic, GasConstant_Ref,
  molarMasses, specificHeat,
  LaminarViscosityPointers, ThermalConductivityPointers, MassDiffusivityPointers,
  massFractions, moleFractions,
  laminarViscosity, laminarThermalConductivity, massDiffusivity,
  Temperature, Density, Cp, Cv, Mu, Kt,
  gas,                          \* the library object of the last SetTDState_T
  calls,                        \* the member functions the last call evaluated
  arg                           \* the arguments of the last call

fluidConsts == <<n_species_mixture, wilke, davidson, Pressure_Thermodynamic,
                 GasConstant_Ref>>
fluidArrays == <<molarMasses, specificHeat, LaminarViscosityPointers,
                 ThermalConductivityPointers, MassDiffusivityPointers>>
fluidState == <<Gas_Constant, massFractions, moleFractions, laminarViscosity,
                laminarThermalConductivity, massDiffusivity,
                Temperature, Density, Cp, Cv, Mu, Kt, gas, calls, arg>>
fluidVars == <<config, pc, errorMsg, fluidConsts, fluidArrays, fluidState>>

VARIABLES
  \* CDriver
  main_config,                  \* what the getters of main_config answer
  nPoint,                       \* the number of mesh points of this rank
  vertex,                       \* main_geometry->vertex[iMarker][iVertex]: its node
  AdjointVertexTractions,       \* the flow solver's adjoint tractions per vertex
  CustomBoundaryHeatFlux,       \* the geometry's custom heat flux per vertex
  Adjoint_SourceTerm,           \* the adjoint flow solver's source term per point
  result                        \* the last accessor call and how it ended

driverVars == <<main_config, nPoint, vertex, AdjointVertexTractions,
                CustomBoundaryHeatFlux, Adjoint_SourceTerm, result>>

vars == <<fluidVars, driverVars>>

\* No driver exists while a fluid model is exercised on its own.
NoDriver ==
  /\ main_config = << >>
  /\ nPoint = 0
  /\ vertex = << >>
  /\ AdjointVertexTractions = << >>
  /\ CustomBoundaryHeatFlux = << >>
  /\ Adjoint_SourceTerm = << >>
  /\ result = << >>

NoGas == [T |-> Unfilled, P |-> Unfilled, X |-> "", lookups |-> {}]
NoArg == [op |-> "", val_temperature |-> Unfilled, val_scalars |-> << >>]

\* Before the constructor has run: the members hold nothing yet, the scalar
\* state of the CFluidModel base is zero.
FluidUnconstructed ==
  /\ pc = "new"
  /\ errorMsg = ""
  /\ n_species_mixture = 0
  /\ wilke = FALSE
  /\ davidson = FALSE
  /\ Gas_Constant = Zero
  /\ Pressure_Thermodynamic = Zero
  /\ GasConstant_Ref = Zero
  /\ molarMasses = EmptyArray
  /\ specificHeat = EmptyArray
  /\ LaminarViscosityPointers = EmptyArray
  /\ ThermalConductivityPointers = EmptyArray
  /\ MassDiffusivityPointers = EmptyArray
  /\ massFractions = EmptyArray
  /\ moleFractions = EmptyArray
  /\ laminarViscosity = EmptyArray
  /\ laminarThermalConductivity = EmptyArray
  /\ massDiffusivity = EmptyArray
  /\ Temperature = Zero
  /\ Density = Zero
  /\ Cp = Zero
  /\ Cv = Zero
  /\ Mu = Zero
  /\ Kt = Zero
  /\ gas = NoGas
  /\ calls = << >>
  /\ arg = NoArg

InitFluid ==
  /\ config \in Configs
  /\ FluidUnconstructed
  /\ NoDriver

(***************************************************************************)
(* CFluidCantera::CFluidCantera.  SU2_MPI::Error ends the run.             *)
(***************************************************************************)
CFluidCantera(val_gas_constant, value_pressure_operating) ==
  /\ pc = "new"
  /\ LET n == config.nSpecies + 1
     IN  /\ n_species_mixture' = n
         /\ Gas_Constant' = val_gas_constant
         /\ Pressure_Thermodynamic' = value_pressure_operating
         /\ GasConstant_Ref' = One
         /\ wilke' = (config.Kind_MixingViscosityModel = "WILKE")
         /\ davidson' = (config.Kind_MixingViscosityModel = "DAVIDSON")
         /\ IF TooManySpecies(n)
            THEN /\ pc' = "error"
                 /\ errorMsg' = "Too many species, increase ARRAYSIZE"
                 /\ UNCHANGED fluidArrays
            ELSE /\ pc' = "ready"
                 /\ errorMsg' = ""
                 /\ molarMasses' =
                      FillArray(n, [i \in 0 .. n - 1 |-> config.species[i].Molecular_Weight],
                                molarMasses)
                 /\ specificHeat' =
                      FillArray(n, [i \in 0 .. n - 1 |-> config.species[i].Specific_Heat_CpND],
                                specificHeat)
                 /\ LaminarViscosityPointers' =
                      FillArray(n, [i \in 0 .. n - 1 |-> config.species[i].Mu_Constant],
                                LaminarViscosityPointers)
                 /\ ThermalConductivityPointers' =
                      FillArray(n, [i \in 0 .. n - 1 |-> config.species[i].Thermal_Conductivity_Constant],
                                ThermalConductivityPointers)
                 /\ MassDiffusivityPointers' =
                      FillArray(n, [i \in 0 .. n - 1 |-> config.species[i].Diffusivity_Constant],
                                MassDiffusivityPointers)
  /\ UNCHANGED <<config, massFractions, moleFractions, laminarViscosity,
                 laminarThermalConductivity, massDiffusivity,
                 Temperature, Density, Cp, Cv, Mu, Kt, gas, calls, arg>>
  /\ UNCHANGED driverVars

(***************************************************************************)
(* CFluidCantera::SetTDState_T, with the member functions it calls.        *)
(***************************************************************************)
SetTDState_T(val_temperature, val_scalars) ==
  /\ pc = "ready"
  /\ LET n == n_species_mixture
         \* gas->setState_TPX(Temperature, Pressure_Thermodynamic, "..."): the
         \* library object is set to a state and none of its properties is read.
         gas1 == [T |-> Temperature, P |-> Pressure_Thermodynamic,
                  X |-> "H2O:1.0, H2:8.0, AR:1.0", lookups |-> {}]
         \* MassToMoleFractions(val_scalars)
         mass1 == MassFractionsOf(n, val_scalars, massFractions)
         mole1 == MoleFractionsOf(n, mass1, molarMasses, moleFractions)
         \* ComputeGasConstant()
         R1 == ComputeGasConstant(n, mole1, molarMasses, GasConstant_Ref)
         T1 == val_temperature
         rho1 == Div(Pressure_Thermodynamic, Mul(T1, R1))
         cp1 == ComputeMeanSpecificHeatCp(n, specificHeat, mass1)
         cv1 == Sub(cp1, R1)
         \* WilkeViscosity and DavidsonViscosity fill laminarViscosity first
         visc1 == IF wilke \/ davidson
                  THEN EvaluateLaws(n, LaminarViscosityPointers, laminarViscosity)
                  ELSE laminarViscosity
         rules == MixingRuleCalls(wilke, davidson, n, mole1, visc1, molarMasses)
         mu1 == MixtureViscosity(rules, Mu)
         \* WilkeConductivity fills laminarThermalConductivity first
         cond1 == EvaluateLaws(n, ThermalConductivityPointers,
                               laminarThermalConductivity)
         kt1 == WilkeConductivity(n, mole1, cond1, visc1, molarMasses)
         \* ComputeMassDiffusivity
         diff1 == EvaluateLaws(n, MassDiffusivityPointers, massDiffusivity)
     IN  /\ gas' = gas1
         /\ massFractions' = mass1
         /\ moleFractions' = mole1
         /\ Gas_Constant' = R1
         /\ Temperature' = T1
         /\ Density' = rho1
         /\ Cp' = cp1
         /\ Cv' = cv1
         /\ laminarViscosity' = visc1
         /\ Mu' = mu1
         /\ laminarThermalConductivity' = cond1
         /\ Kt' = kt1
         /\ massDiffusivity' = diff1
         /\ calls' = << Call("MassToMoleFractions", Unfilled),
                        Call("ComputeGasConstant", R1),
                        Call("ComputeMeanSpecificHeatCp", cp1) >>
                     \o rules
                     \o << Call("WilkeConductivity", kt1),
                           Call("ComputeMassDiffusivity", Unfilled) >>
         /\ arg' = [op |-> "SetTDState_T", val_temperature |-> val_temperature,
                    val_scalars |-> val_scalars]
  /\ UNCHANGED <<config, pc, errorMsg, fluidConsts, fluidArrays>>
  /\ UNCHANGED driverVars

NextFluid ==
  \/ \E p \in PressureValues : CFluidCantera(One, p)
  \/ \E t \in TemperatureValues :
       \E s \in [0 .. n_species_mixture - 2 -> ScalarValues] :
         SetTDState_T(t, s)

SpecFluid == InitFluid /\ [][NextFluid]_vars

(***************************************************************************)
(* Properties of CFluidCantera.                                            *)
(***************************************************************************)

\* A call of SetTDState_T has returned.
AfterSetTDState_T == pc = "ready" /\ arg.op = "SetTDState_T"

\* The mixing rules among the member functions the last call evaluated.
MixingRulesEvaluated ==
  { k \in DOMAIN calls : calls[k].fn \in {"WilkeViscosity", "DavidsonViscosity"} }

\* C1: after MassToMoleFractions the first n-1 mass fractions are the
\* transported scalars handed in, the last one is 1 minus their sum, and the
\* n stored mass fractions sum to exactly 1, whatever the scalars are.
C1_MassFractions ==
  AfterSetTDState_T =>
    LET n == n_species_mixture
    IN  /\ \A i \in 0 .. n - 2 : massFractions[i] = arg.val_scalars[i]
        /\ massFractions[n - 1] = Sub(One, SumBelow(arg.val_scalars, n - 1))
        /\ SumBelow(massFractions, n) = One

\* C1 witness: three species, an undershooting first scalar, and a last mass
\* fraction that is the complement of the two scalars.
C1_Witness ==
  /\ AfterSetTDState_T
  /\ n_species_mixture = 3
  /\ arg.val_scalars[0] = Rat(-1, 3)
  /\ arg.val_scalars[1] = One
  /\ massFractions[2] = Rat(1, 3)

\* The sum of massFractions[j] / molarMasses[j] over the species in the mixture.
MixtureMolarMass ==
  SumBelow([j \in 0 .. n_species_mixture - 1 |->
              Div(massFractions[j], molarMasses[j])], n_species_mixture)

\* C2: when every molar mass is positive and the sum of mass fraction over
\* molar mass is nonzero, each mole fraction is (mass fraction / molar mass)
\* divided by that sum, and the mole fractions sum to exactly 1.
C2_MoleFractions ==
  ( /\ AfterSetTDState_T
    /\ \A i \in 0 .. n_species_mixture - 1 : IsPositive(molarMasses[i])
    /\ MixtureMolarMass # Zero )
  => /\ \A i \in 0 .. n_species_mixture - 1 :
          moleFractions[i] =
            Div(Div(massFractions[i], molarMasses[i]), MixtureMolarMass)
     /\ SumBelow(moleFractions, n_species_mixture) = One

\* C2 witness: three species of unequal molar masses, a negative mass
\* fraction among them, and a nonzero sum.
C2_Witness ==
  /\ AfterSetTDState_T
  /\ n_species_mixture = 3
  /\ molarMasses[0] # molarMasses[1]
  /\ massFractions[0] = Rat(-1, 3)
  /\ MixtureMolarMass # Zero
  /\ IsFinite(moleFractions[2])

\* C3: every call of SetTDState_T evaluates exactly one of WilkeViscosity and
\* DavidsonViscosity, under either mixing-viscosity model, and Mu is the value
\* of that rule for the state the call stored, not the Mu of an earlier call.
C3_OneMixingRule ==
  AfterSetTDState_T =>
    /\ Cardinality(MixingRulesEvaluated) = 1
    /\ \A k \in MixingRulesEvaluated :
         /\ Mu = calls[k].ret
         /\ Mu = IF calls[k].fn = "WilkeViscosity"
                 THEN WilkeViscosity(n_species_mixture, moleFractions,
                                     laminarViscosity, molarMasses)
                 ELSE DavidsonViscosity(n_species_mixture, moleFractions,
                                        laminarViscosity, molarMasses)

\* C3 witness: a later call (the library object was set to the temperature
\* an earlier call stored) under the DAVIDSON model, with a finite viscosity.
C3_Witness ==
  /\ AfterSetTDState_T
  /\ config.Kind_MixingViscosityModel = "DAVIDSON"
  /\ n_species_mixture = 3
  /\ gas.T = Num(2)
  /\ \E k \in MixingRulesEvaluated : calls[k].fn = "DavidsonViscosity"
  /\ IsPositive(Mu)

\* C4: the Density, Cp and Cv that SetTDState_T stores were looked up from
\* the chemistry library, set to the temperature of the call.
C4_LibraryLookup ==
  AfterSetTDState_T =>
    /\ {"density", "cp_mass", "cv_mass"} \subseteq gas.lookups
    /\ gas.T = Temperature

\* The results SetTDState_T stores for the species in the mixture.
StoredResults ==
  { Gas_Constant, Density, Cp, Cv, Mu, Kt }
  \cup { moleFractions[i] : i \in 0 .. n_species_mixture - 1 }
  \cup { massFractions[i] : i \in 0 .. n_species_mixture - 1 }

\* C5: the only failure is the constructor's array-size guard: every call of
\* SetTDState_T on a constructed model stores defined results, no division
\* by zero and no read of an unfilled entry having happened.
C5_DefinedResults ==
  AfterSetTDState_T => \A q \in StoredResults : IsFinite(q)

\* The per-species arrays the constructor fills.
ConstructorArrays ==
  { molarMasses, specificHeat, LaminarViscosityPointers,
    ThermalConductivityPointers, MassDiffusivityPointers }

\* C6: a configuration with nSpecies + 1 > ARRAYSIZE makes the constructor
\* fail with "Too many species, increase ARRAYSIZE" before any per-species
\* array is written; any other configuration constructs without an error
\* and fills exactly the entries 0 .. nSpecies of each per-species array.
C6_ArraySizeGuard ==
  /\ pc = "error" =>
       /\ config.nSpecies + 1 > ARRAYSIZE
       /\ errorMsg = "Too many species, increase ARRAYSIZE"
       /\ \A a \in ConstructorArrays : a = EmptyArray
  /\ pc = "ready" =>
       /\ config.nSpecies + 1 <= ARRAYSIZE
       /\ errorMsg = ""
       /\ \A a \in ConstructorArrays : \A i \in SpeciesIdx :
            (a[i] # Unfilled) <=> (i <= config.nSpecies)

\* C6 witness: the smallest mixture that does not fit has been refused.
C6_Witness ==
  /\ pc = "error"
  /\ config.nSpecies + 1 = ARRAYSIZE + 1
  /\ molarMasses = EmptyArray

\* Every species of the mixture has the molar mass and the viscosity of the
\* first one.
EqualSpecies ==
  \A i \in 0 .. n_species_mixture - 1 :
    /\ molarMasses[i] = molarMasses[0]
    /\ laminarViscosity[i] = laminarViscosity[0]

\* C17: for a mixture of a single species (its mole fraction is 1)
\* WilkeViscosity and DavidsonViscosity give laminarViscosity[0] and
\* WilkeConductivity gives laminarThermalConductivity[0]; and when all
\* species have the same molar mass and the same viscosity mu, WilkeViscosity
\* and DavidsonViscosity give mu whatever the composition is.  Mu and Kt, the
\* values SetTDState_T stored from these functions, are those values.
C17_PureSpeciesLimit ==
  AfterSetTDState_T =>
    LET n == n_species_mixture
        wilkeMu == WilkeViscosity(n, moleFractions, laminarViscosity, molarMasses)
        davidsonMu == DavidsonViscosity(n, moleFractions, laminarViscosity, molarMasses)
        wilkeKt == WilkeConductivity(n, moleFractions, laminarThermalConductivity,
                                     laminarViscosity, molarMasses)
    IN  /\ n = 1 =>
              /\ moleFractions[0] = One
              /\ wilkeMu = laminarViscosity[0]
              /\ davidsonMu = laminarViscosity[0]
              /\ wilkeKt = laminarThermalConductivity[0]
              /\ Mu = laminarViscosity[0]
              /\ Kt = laminarThermalConductivity[0]
        /\ EqualSpecies =>
              /\ wilkeMu = laminarViscosity[0]
              /\ davidsonMu = laminarViscosity[0]
              /\ Mu = laminarViscosity[0]

\* C17 witness: three equal species under the WILKE model, in a composition
\* with an undershooting and an overshooting mass fraction, and the mixture
\* viscosity that of the species.
C17_Witness ==
  /\ AfterSetTDState_T
  /\ n_species_mixture = 3
  /\ EqualSpecies
  /\ config.Kind_MixingViscosityModel = "WILKE"
  /\ massFractions[0] = Rat(-1, 3)
  /\ massFractions[1] = One
  /\ laminarViscosity[0] = Num(4)
  /\ Mu = Num(4)

(***************************************************************************)
(* CDriver: configuration, mesh and solver arrays.                         *)
(***************************************************************************)

\* The largest number of mesh points of a rank.
MaxPoints == 2

\* The number of space dimensions of the mesh.
nDim == 2

\* The number of state variables of the flow solver (GetnVar).
nVar == 2

\* main_config->GetnSpecies() of a nonequilibrium problem.
nSpeciesNEMO == 2

\* The markers of the mesh.
Markers == {0, 1}

\* What main_config answers.  A nonequilibrium problem is a fluid problem.
DriverConfigs ==
  { c \in [ FluidProblem : BOOLEAN,
            Discrete_Adjoint : BOOLEAN,
            Kind_DiscreteAdjoint : {"RESIDUALS", "FIXED_POINT"},
            NEMOProblem : BOOLEAN,
            Kind_Regime : {"COMPRESSIBLE", "INCOMPRESSIBLE"} ] :
      c.NEMOProblem => c.FluidProblem }

\* The vertices of the markers of a mesh of n points, each with its node:
\* marker 0 lists every point, last point first; marker 1 has no vertex on
\* this rank.
MeshOf(n) ==
  [iMarker \in Markers |->
     IF iMarker = 0 THEN [iVertex \in 0 .. n - 1 |-> n - 1 - iVertex]
     ELSE [iVertex \in 0 .. -1 |-> 0]]

\* The indices a caller passes, in range or not.
PointIndices == 0 .. MaxPoints
VertexIndices == 0 .. MaxPoints

\* A vector<passivedouble> a caller passes, indexed from 0.
Vec(s) == [i \in 0 .. Len(s) - 1 |-> s[i + 1]]
Size(v) == Cardinality(DOMAIN v)

\* The vectors handed to SetMarkerAdjointForces(iMarker, iVertex, values).
ForceValues == { Vec(<<1, 2>>), Vec(<<1>>) }

\* The values handed to SetMarkerNormalHeatFluxes(iMarker, iVertex, value).
HeatFluxValues == { 5 }

\* CDriverBase::GetNumberVertices
GetNumberVertices == nPoint

\* CDriverBase::GetNumberMarkerVertices
GetNumberMarkerVertices(iMarker) == Size(vertex[iMarker])

\* The solvers of solver_container[ZONE_0][INST_0][MESH_0] that exist: the
\* flow solver for a fluid problem, the adjoint flow solver for a
\* discrete-adjoint fluid problem.
SolverDefined(solver) ==
  IF solver = "FLOW_SOL" THEN main_config.FluidProblem
  ELSE main_config.FluidProblem /\ main_config.Discrete_Adjoint

\* How a call ends: it returns a value, SU2_MPI::Error ends the run with a
\* message, the run crashes, or it returns something indeterminate.  reads lists the solver and geometry array
\* entries the call accessed, writes the entries it stored with their values.
NoValue == << >>
Return(value, reads) ==
  [kind |-> "return", msg |-> "", value |-> value, reads |-> reads, writes |-> {}]
Error(msg) ==
  [kind |-> "error", msg |-> msg, value |-> NoValue, reads |-> {}, writes |-> {}]
Crash(reads) ==
  [kind |-> "crash", msg |-> "", value |-> NoValue, reads |-> reads, writes |-> {}]

\* Undefined behaviour after the accesses reads: the run crashes, or goes on
\* with an indeterminate value (kind "garbage").
Undefined(reads) ==
  { Crash(reads),
    [kind |-> "garbage", msg |-> "", value |-> NoValue, reads |-> reads,
     writes |-> {}] }

\* An access to an entry of a solver's or the geometry's array, and the value
\* a solver keeps in an entry of one of its arrays.
Access(owner, array, index) == <<owner, array, index>>
Stored(array, index) == <<array, index>>

\* The index tuples that exist in a per-point array (iPoint first) and in a
\* per-vertex array (iMarker, iVertex first).
ValidPoint(index) == index[1] < nPoint
ValidVertex(index) == index[1] \in Markers /\ index[2] < Size(vertex[index[1]])

\* solver_container[ZONE_0][INST_0][MESH_0][solver]->array(index...) for each
\* index of the sequence indices, in order.  Calling through a solver that is
\* not defined, or with an index outside the array, is undefined behaviour.
ReadPoints(solver, array, indices) ==
  LET reads == { Access(solver, array, indices[k]) : k \in DOMAIN indices }
  IN  IF SolverDefined(solver) /\ \A k \in DOMAIN indices : ValidPoint(indices[k])
      THEN { Return([k \in DOMAIN indices |-> Stored(array, indices[k])], reads) }
      ELSE Undefined(reads)

\* The same for a per-vertex array of the adjoint flow solver.
ReadVertices(solver, array, indices) ==
  LET reads == { Access(solver, array, indices[k]) : k \in DOMAIN indices }
  IN  IF SolverDefined(solver) /\ \A k \in DOMAIN indices : ValidVertex(indices[k])
      THEN { Return([k \in DOMAIN indices |-> Stored(array, indices[k])], reads) }
      ELSE Undefined(reads)

\* The index tuples <<i, 0>> .. <<i, n-1>> and <<i, j, 0>> .. <<i, j, n-1>>.
Each(i, n) == [k \in 1 .. n |-> <<i, k - 1>>]
Each2(i, j, n) == [k \in 1 .. n |-> <<i, j, k - 1>>]

\* One entry of a per-point array: the scalar stored there.
ReadPoint(solver, array, index) ==
  { IF o.kind = "return" THEN [o EXCEPT !.value = @[1]] ELSE o :
      o \in ReadPoints(solver, array, << index >>) }

\* The outcomes outs of the rest of a call that accessed reads before.
AlsoRead(reads, outs) == { [o EXCEPT !.reads = @ \cup reads] : o \in outs }

\* CDriverBase::GetMarkerVertexIndices: the node of a vertex of a marker,
\* refused when the vertex index is not below the marker's vertex count.
GetMarkerVertexIndices(iMarker, iVertex) ==
  IF iVertex >= GetNumberMarkerVertices(iMarker)
  THEN Error("Vertex index exceeds marker size.")
  ELSE Return(vertex[iMarker][iVertex],
              { Access("main_geometry", "vertex", <<iMarker, iVertex>>) })

\* for (auto i = 0ul; i < n; i++) { ... accessor(i) ... }: the ways a loop
\* over the indices 0 .. n-1 can end, outs[i] being the ways the call for
\* index i can end.  SU2_MPI::Error or a crash in a call ends the loop there;
\* the loop returns the values of the calls in order, and something
\* indeterminate when a call did.
ForEachIndex(outs) ==
  LET n == Size(outs)
      all == UNION { outs[k] : k \in DOMAIN outs }
      runs == { c \in [DOMAIN outs -> all] : \A k \in DOMAIN outs : c[k] \in outs[k] }
      Stops(c) == { k \in DOMAIN outs : c[k].kind \in {"error", "crash"} }
      Last(c) == IF Stops(c) = {} THEN n - 1
                 ELSE CHOOSE k \in Stops(c) : \A j \in Stops(c) : k <= j
      Ended(c) == [kind |-> "return", msg |-> "",
                   value |-> [k \in 1 .. n |-> c[k - 1].value]]
      End(c) == IF Stops(c) # {}
                THEN [kind |-> c[Last(c)].kind, msg |-> c[Last(c)].msg, value |-> NoValue]
                ELSE IF \E k \in DOMAIN outs : c[k].kind = "garbage"
                THEN [kind |-> "garbage", msg |-> "", value |-> NoValue]
                ELSE Ended(c)
  IN  { [kind |-> End(c).kind, msg |-> End(c).msg, value |-> End(c).value,
         reads |-> UNION { c[k].reads : k \in 0 .. Last(c) },
         writes |-> UNION { c[k].writes : k \in 0 .. Last(c) }] : c \in runs }

(***************************************************************************)
(* CDriver: the accessors of the flow solver.  Each is the set of ways a   *)
(* call with the given arguments can end.                                  *)
(***************************************************************************)

GetNumberStateVariables ==
  IF ~main_config.FluidProblem THEN { Error("Flow solver is not defined!") }
  ELSE IF SolverDefined("FLOW_SOL") THEN { Return(<<"GetnVar", nVar>>, {}) }
  ELSE Undefined({})

GetNumberPrimitiveVariables ==
  IF ~main_config.FluidProblem THEN { Error("Flow solver is not defined!") }
  ELSE IF SolverDefined("FLOW_SOL") THEN { Return(<<"GetnPrimVar">>, {}) }
  ELSE Undefined({})

GetSpeedOfSound(iPoint) ==
  IF main_config.FluidProblem THEN { Error("Flow solver is not defined!") }
  ELSE IF iPoint >= GetNumberVertices
  THEN { Error("Vertex index exceeds mesh size.") }
  ELSE ReadPoint("FLOW_SOL", "GetSoundSpeed", <<iPoint>>)

GetMarkerSpeedOfSound(iMarker, iVertex) ==
  IF main_config.FluidProblem THEN { Error("Flow solver is not defined!") }
  ELSE LET iPoint == GetMarkerVertexIndices(iMarker, iVertex)
       IN  IF iPoint.kind # "return" THEN { iPoint }
           ELSE AlsoRead(iPoint.reads,
                         ReadPoint("FLOW_SOL", "GetSoundSpeed", <<iPoint.value>>))

(***************************************************************************)
(* CDriver: the accessors of the adjoint flow solver.                      *)
(***************************************************************************)

\* FLOW_SOL->GetAdjointVertexTractions(iMarker, iVertex, iDim) for each iDim
ReadAdjointVertexTractions(iMarker, iVertex) ==
  LET reads == { Access("FLOW_SOL", "GetAdjointVertexTractions",
                        <<iMarker, iVertex, iDim>>) : iDim \in 0 .. nDim - 1 }
  IN  IF SolverDefined("FLOW_SOL") /\ ValidVertex(<<iMarker, iVertex>>)
      THEN { Return([k \in 1 .. nDim |->
                       AdjointVertexTractions[iMarker][iVertex][k - 1]], reads) }
      ELSE Undefined(reads)

\* A range check that lets the index one past the last vertex through.
GetMarkerAdjointForces_OffByOne(iMarker, iVertex) ==
  IF ~main_config.FluidProblem \/ ~main_config.Discrete_Adjoint
  THEN { Error("Discrete adjoint flow solver is not defined!") }
  ELSE IF iVertex > GetNumberMarkerVertices(iMarker)
  THEN { Error("Vertex index exceeds marker size.") }
  ELSE ReadAdjointVertexTractions(iMarker, iVertex)

GetMarkerAdjointForces(iMarker, iVertex) ==
  IF ~main_config.FluidProblem \/ ~main_config.Discrete_Adjoint
  THEN { Error("Discrete adjoint flow solver is not defined!") }
  ELSE IF iVertex >= GetNumberMarkerVertices(iMarker)
  THEN { Error("Vertex index exceeds marker size.") }
  ELSE ReadAdjointVertexTractions(iMarker, iVertex)

\* What reading values[k] yields: the element, or, past the end of the
\* vector, undefined behaviour that goes on with some value.
GarbageValues == { 9 }
ElementsAt(values, k) ==
  IF k \in DOMAIN values THEN { values[k] } ELSE GarbageValues

\* FLOW_SOL->StoreVertexTractionsAdjoint(iMarker, iVertex, iDim,
\* values[iVertex * nDim + iDim]) for each iDim.
StoreVertexTractionsAdjoint(iMarker, iVertex, values) ==
  LET at(iDim) == iVertex * nDim + iDim
      inside == \A iDim \in 0 .. nDim - 1 : at(iDim) \in DOMAIN values
      any == UNION { ElementsAt(values, at(iDim)) : iDim \in 0 .. nDim - 1 }
      stored == { t \in [0 .. nDim - 1 -> any] :
                    \A iDim \in 0 .. nDim - 1 :
                      t[iDim] \in ElementsAt(values, at(iDim)) }
      ends == { [kind |-> IF inside THEN "return" ELSE "garbage", msg |-> "",
                 value |-> NoValue, reads |-> {},
                 writes |-> { <<"StoreVertexTractionsAdjoint",
                                <<iMarker, iVertex, iDim>>, t[iDim]>> :
                              iDim \in 0 .. nDim - 1 }] : t \in stored }
  IN  IF inside THEN ends ELSE ends \cup { Crash({}) }

SetMarkerAdjointForces(iMarker, iVertex, values) ==
  IF ~main_config.FluidProblem \/ ~main_config.Discrete_Adjoint
  THEN { Error("Discrete adjoint flow solver is not defined!") }
  ELSE IF iVertex >= GetNumberMarkerVertices(iMarker)
  THEN { Error("Vertex index exceeds marker size.") }
  ELSE IF Size(values) # nDim
  THEN { Error("Invalid number of dimensions!") }
  ELSE StoreVertexTractionsAdjoint(iMarker, iVertex, values)

\* The matrices handed to SetMarkerAdjointForces(iMarker, values): one row
\* of nDim elements per vertex, every element different.
ForceMatrices ==
  { Vec([iVertex \in 1 .. n |->
           Vec([iDim \in 1 .. nDim |-> (iVertex - 1) * nDim + iDim])]) :
      n \in 1 .. MaxPoints }

\* SetMarkerAdjointForces(iMarker, values), values a vector of vectors.
SetMarkerAdjointForces_All(iMarker, values) ==
  LET nVertex == GetNumberMarkerVertices(iMarker)
  IN  IF Size(values) # nVertex
      THEN { Error("Invalid number of marker vertices!") }
      ELSE ForEachIndex([iVertex \in 0 .. nVertex - 1 |->
                           SetMarkerAdjointForces(iMarker, iVertex, values[iVertex])])

\* The per-point sensitivity getters: the adjoint flow solver's array each
\* reads, and whether it returns nDim or nVar entries per point.
PointSensitivityGetters ==
  { [name |-> "GetCoordinatesCoordinatesSensitivities",
     array |-> "GetProd_dCoordinates_dCoordinates", perPoint |-> "nDim"],
    [name |-> "GetObjectiveStatesSensitivities",
     array |-> "GetSens_dObjective_dStates", perPoint |-> "nVar"],
    [name |-> "GetResidualsStatesSensitivities",
     array |-> "GetProd_dResiduals_dStates", perPoint |-> "nVar"],
    [name |-> "GetForcesStatesSensitivities",
     array |-> "GetProd_dTractions_dStates", perPoint |-> "nVar"],
    [name |-> "GetObjectiveCoordinatesSensitivities",
     array |-> "GetSens_dObjective_dCoordinates", perPoint |-> "nDim"],
    [name |-> "GetResidualsCoordinatesSensitivities",
     array |-> "GetProd_dResiduals_dCoordinates", perPoint |-> "nDim"],
    [name |-> "GetForcesCoordinatesSensitivities",
     array |-> "GetProd_dTractions_dCoordinates", perPoint |-> "nDim"] }

\* The per-vertex sensitivity getters and the array each reads.
MarkerSensitivityGetters ==
  { [name |-> "GetMarkerCoordinatesDisplacementsSensitivities",
     array |-> "GetProd_dCoordinates_dDisplacements"],
    [name |-> "GetMarkerObjectiveDisplacementsSensitivities",
     array |-> "GetSens_dObjective_dDisplacements"],
    [name |-> "GetMarkerResidualsDisplacementsSensitivities",
     array |-> "GetProd_dResiduals_dDisplacements"],
    [name |-> "GetMarkerForcesDisplacementsSensitivities",
     array |-> "GetProd_dTractions_dDisplacements"] }

\* The loop of a per-point sensitivity getter after its checks; a getter of
\* nVar entries asks GetNumberStateVariables for nVar first.
ReadPointSensitivities(getter, iPoint) ==
  IF getter.perPoint = "nDim"
  THEN ReadPoints("ADJFLOW_SOL", getter.array, Each(iPoint, nDim))
  ELSE UNION { IF n.kind = "return"
               THEN ReadPoints("ADJFLOW_SOL", getter.array, Each(iPoint, nVar))
               ELSE { n } : n \in GetNumberStateVariables }

GetPointSensitivities(getter, iPoint) ==
  IF ~main_config.FluidProblem \/ ~main_config.Discrete_Adjoint
  THEN { Error("Discrete adjoint flow solver is not defined!") }
  ELSE IF main_config.Kind_DiscreteAdjoint # "RESIDUALS"
  THEN { Error("Discrete adjoint flow solver does not use residual-based formulation!") }
  ELSE IF iPoint >= GetNumberVertices
  THEN { Error("Vertex index exceeds mesh size.") }
  ELSE ReadPointSensitivities(getter, iPoint)

\* The index-range check made before the two checks of main_config.
GetMarkerSensitivities_RangeFirst(getter, iMarker, iVertex) ==
  IF iVertex >= GetNumberMarkerVertices(iMarker)
  THEN { Error("Vertex index exceeds marker size.") }
  ELSE IF ~main_config.FluidProblem \/ ~main_config.Discrete_Adjoint
  THEN { Error("Discrete adjoint flow solver is not defined!") }
  ELSE IF main_config.Kind_DiscreteAdjoint # "RESIDUALS"
  THEN { Error("Discrete adjoint flow solver does not use residual-based formulation!") }
  ELSE ReadVertices("ADJFLOW_SOL", getter.array, Each2(iMarker, iVertex, nDim))

GetMarkerSensitivities(getter, iMarker, iVertex) ==
  IF ~main_config.FluidProblem \/ ~main_config.Discrete_Adjoint
  THEN { Error("Discrete adjoint flow solver is not defined!") }
  ELSE IF main_config.Kind_DiscreteAdjoint # "RESIDUALS"
  THEN { Error("Discrete adjoint flow solver does not use residual-based formulation!") }
  ELSE IF iVertex >= GetNumberMarkerVertices(iMarker)
  THEN { Error("Vertex index exceeds marker size.") }
  ELSE ReadVertices("ADJFLOW_SOL", getter.array, Each2(iMarker, iVertex, nDim))

\* const int nTrim = 2
nTrim == 2

\* The two getters of the sensitivities with respect to the farfield
\* variables (Mach number, angle of attack) and the array each reads.
FarfieldSensitivityGetters ==
  { [name |-> "GetObjectiveFarfieldVariablesSensitivities",
     array |-> "GetSens_dObjective_dVariables"],
    [name |-> "GetResidualsFarfieldVariablesSensitivities",
     array |-> "GetProd_dResiduals_dVariables"] }

GetFarfieldVariablesSensitivities(getter) ==
  LET reads == { Access("ADJFLOW_SOL", getter.array, <<k>>) : k \in 0 .. nTrim - 1 }
  IN  IF ~main_config.FluidProblem \/ ~main_config.Discrete_Adjoint
      THEN { Error("Discrete adjoint flow solver is not defined!") }
      ELSE IF main_config.Kind_DiscreteAdjoint # "RESIDUALS"
      THEN { Error("Discrete adjoint flow solver does not use residual-based formulation!") }
      ELSE IF SolverDefined("ADJFLOW_SOL")
      THEN { Return([k \in 1 .. nTrim |-> Stored(getter.array, <<k - 1>>)], reads) }
      ELSE Undefined(reads)

\* The vectors handed to SetAdjointSourceTerm(values).
SourceValues == { Vec([k \in 1 .. n |-> k]) : n \in 1 .. MaxPoints * nVar }

\* The stores of the two loops of SetAdjointSourceTerm read the element of
\* the other order, values[iVar * nPoint + iPoint].
SourceTermStores_Transposed(values) ==
  [k \in 1 .. nPoint * nVar |->
     LET iPoint == (k - 1) \div nVar
         iVar == (k - 1) % nVar
     IN  <<"SetAdjoint_SourceTerm", <<iPoint, iVar>>, values[iVar * nPoint + iPoint]>>]

\* ADJFLOW_SOL->SetAdjoint_SourceTerm(iPoint, iVar, values[iPoint * nVar + iVar])
\* for each iPoint and, within it, each iVar, in the order of the loops.
SourceTermStores(values) ==
  [k \in 1 .. nPoint * nVar |->
     LET iPoint == (k - 1) \div nVar
         iVar == (k - 1) % nVar
     IN  <<"SetAdjoint_SourceTerm", <<iPoint, iVar>>, values[iPoint * nVar + iVar]>>]

SetAdjointSourceTerm(values) ==
  IF ~main_config.FluidProblem \/ ~main_config.Discrete_Adjoint
  THEN { Error("Discrete adjoint flow solver is not defined!") }
  ELSE IF main_config.Kind_DiscreteAdjoint # "RESIDUALS"
  THEN { Error("Discrete adjoint flow solver does not use residual-based formulation!") }
  ELSE UNION { IF n.kind # "return" THEN { n }
               ELSE IF Size(values) # GetNumberVertices * nVar
               THEN { Error("Size does not match nPoint * nVar!") }
               ELSE IF ~SolverDefined("ADJFLOW_SOL") THEN Undefined({})
               ELSE LET stores == SourceTermStores(values)
                    IN  { [kind |-> "return", msg |-> "", value |-> NoValue,
                           reads |-> {},
                           writes |-> { stores[k] : k \in DOMAIN stores }] } :
               n \in GetNumberStateVariables }

(***************************************************************************)
(* CDriver: the accessors of the conjugate heat transfer solver.           *)
(***************************************************************************)

\* values(nDim, 0.0)
ZeroVector == [k \in 1 .. nDim |-> 0]

\* Cp * (laminar_viscosity / Prandtl_Lam)
ThermalConductivityOf(laminar_viscosity) ==
  <<"Cp * (laminar_viscosity / Prandtl_Lam)", laminar_viscosity>>

\* The heat flux at a point, from its laminar viscosity and the temperature
\* gradient: zero unless the regime is compressible.
HeatFluxAt(iPoint) ==
  IF main_config.Kind_Regime # "COMPRESSIBLE" THEN { Return(ZeroVector, {}) }
  ELSE { IF mu.kind # "return" THEN mu
         ELSE IF GradT.kind # "return" THEN [GradT EXCEPT !.reads = @ \cup mu.reads]
         ELSE Return([k \in 1 .. nDim |->
                        <<"-thermal_conductivity * GradT",
                          ThermalConductivityOf(mu.value), GradT.value[k]>>],
                     mu.reads \cup GradT.reads) :
           mu \in ReadPoint("FLOW_SOL", "GetLaminarViscosity", <<iPoint>>),
           GradT \in ReadPoints("FLOW_SOL", "GetGradient_Primitive",
                                Each2(iPoint, 0, nDim)) }

\* The two checks in the other order.
GetHeatFluxes_RangeFirst(iPoint) ==
  IF iPoint >= GetNumberVertices
  THEN { Error("Vertex index exceeds mesh size.") }
  ELSE IF ~main_config.FluidProblem THEN { Error("Flow solver is not defined!") }
  ELSE HeatFluxAt(iPoint)

GetHeatFluxes(iPoint) ==
  IF ~main_config.FluidProblem THEN { Error("Flow solver is not defined!") }
  ELSE IF iPoint >= GetNumberVertices
  THEN { Error("Vertex index exceeds mesh size.") }
  ELSE HeatFluxAt(iPoint)

GetMarkerHeatFluxes(iMarker, iVertex) ==
  IF ~main_config.FluidProblem THEN { Error("Flow solver is not defined!") }
  ELSE LET iPoint == GetMarkerVertexIndices(iMarker, iVertex)
       IN  IF iPoint.kind # "return" THEN { iPoint }
           ELSE AlsoRead(iPoint.reads, HeatFluxAt(iPoint.value))

\* The projection of a heat flux on the normal of a vertex, read from
\* main_geometry->vertex[iMarker][iVertex].
GetMarkerNormalHeatFluxes(iMarker, iVertex) ==
  { IF values.kind # "return" THEN values
    ELSE IF ValidVertex(<<iMarker, iVertex>>)
    THEN Return(<<"projected", values.value, <<"GetNormal", iMarker, iVertex>>>>,
                values.reads
                  \cup { Access("main_geometry", "GetNormal", <<iMarker, iVertex>>) })
    ELSE Crash(values.reads
                 \cup { Access("main_geometry", "GetNormal", <<iMarker, iVertex>>) }) :
      values \in GetMarkerHeatFluxes(iMarker, iVertex) }

SetMarkerNormalHeatFluxes(iMarker, iVertex, value) ==
  IF ~main_config.FluidProblem THEN { Error("Flow solver is not defined!") }
  ELSE IF iVertex >= GetNumberMarkerVertices(iMarker)
  THEN { Error("Vertex index exceeds marker size.") }
  ELSE { [kind |-> "return", msg |-> "", value |-> NoValue, reads |-> {},
          writes |-> { <<"SetCustomBoundaryHeatFlux", <<iMarker, iVertex>>, value>> }] }

\* The vectors handed to SetMarkerNormalHeatFluxes(iMarker, values), every
\* element different.
HeatFluxVectors ==
  { Vec([iVertex \in 1 .. n |-> 4 + iVertex]) : n \in 0 .. MaxPoints }

\* A size check that lets a vector longer than the marker through.
SetMarkerNormalHeatFluxes_All_LongerAccepted(iMarker, values) ==
  LET nVertex == GetNumberMarkerVertices(iMarker)
  IN  IF Size(values) < nVertex
      THEN { Error("Invalid number of marker vertices!") }
      ELSE ForEachIndex([iVertex \in 0 .. nVertex - 1 |->
                           SetMarkerNormalHeatFluxes(iMarker, iVertex, values[iVertex])])

\* SetMarkerNormalHeatFluxes(iMarker, values), values a vector.
SetMarkerNormalHeatFluxes_All(iMarker, values) ==
  LET nVertex == GetNumberMarkerVertices(iMarker)
  IN  IF Size(values) # nVertex
      THEN { Error("Invalid number of marker vertices!") }
      ELSE ForEachIndex([iVertex \in 0 .. nVertex - 1 |->
                           SetMarkerNormalHeatFluxes(iMarker, iVertex, values[iVertex])])

GetThermalConductivities(iPoint) ==
  IF ~main_config.FluidProblem THEN { Error("Flow solver is not defined!") }
  ELSE IF iPoint >= GetNumberVertices
  THEN { Error("Vertex index exceeds mesh size.") }
  ELSE { IF mu.kind = "return"
         THEN [mu EXCEPT !.value = ThermalConductivityOf(@)] ELSE mu :
           mu \in ReadPoint("FLOW_SOL", "GetLaminarViscosity", <<iPoint>>) }

GetMarkerThermalConductivities(iMarker, iVertex) ==
  IF ~main_config.FluidProblem THEN { Error("Flow solver is not defined!") }
  ELSE LET iPoint == GetMarkerVertexIndices(iMarker, iVertex)
       IN  IF iPoint.kind # "return" THEN { iPoint }
           ELSE AlsoRead(iPoint.reads,
                  { IF mu.kind = "return"
                    THEN [mu EXCEPT !.value = ThermalConductivityOf(@)] ELSE mu :
                      mu \in ReadPoint("FLOW_SOL", "GetLaminarViscosity",
                                       <<iPoint.value>>) })

\* A range check that lets the index one past the last point through.
GetLaminarViscosities_OffByOne(iPoint) ==
  IF ~main_config.FluidProblem THEN { Error("Flow solver is not defined!") }
  ELSE IF iPoint > GetNumberVertices
  THEN { Error("Vertex index exceeds mesh size.") }
  ELSE ReadPoint("FLOW_SOL", "GetLaminarViscosity", <<iPoint>>)

GetLaminarViscosities(iPoint) ==
  IF ~main_config.FluidProblem THEN { Error("Flow solver is not defined!") }
  ELSE IF iPoint >= GetNumberVertices
  THEN { Error("Vertex index exceeds mesh size.") }
  ELSE ReadPoint("FLOW_SOL", "GetLaminarViscosity", <<iPoint>>)

GetMarkerLaminarViscosities(iMarker, iVertex) ==
  IF ~main_config.FluidProblem THEN { Error("Flow solver is not defined!") }
  ELSE LET iPoint == GetMarkerVertexIndices(iMarker, iVertex)
       IN  IF iPoint.kind # "return" THEN { iPoint }
           ELSE AlsoRead(iPoint.reads,
                  ReadPoint("FLOW_SOL", "GetLaminarViscosity", <<iPoint.value>>))

GetEddyViscosities(iPoint) ==
  IF ~main_config.FluidProblem THEN { Error("Flow solver is not defined!") }
  ELSE IF iPoint >= GetNumberVertices
  THEN { Error("Vertex index exceeds mesh size.") }
  ELSE ReadPoint("FLOW_SOL", "GetEddyViscosity", <<iPoint>>)

GetMarkerEddyViscosities(iMarker, iVertex) ==
  IF ~main_config.FluidProblem THEN { Error("Flow solver is not defined!") }
  ELSE LET iPoint == GetMarkerVertexIndices(iMarker, iVertex)
       IN  IF iPoint.kind # "return" THEN { iPoint }
           ELSE AlsoRead(iPoint.reads,
                  ReadPoint("FLOW_SOL", "GetEddyViscosity", <<iPoint.value>>))

(***************************************************************************)
(* CDriver: the overloads without an index, which call the indexed         *)
(* overload for each point of the mesh or each vertex of the marker.       *)
(***************************************************************************)

GetHeatFluxes_All ==
  ForEachIndex([iPoint \in 0 .. GetNumberVertices - 1 |-> GetHeatFluxes(iPoint)])

GetMarkerHeatFluxes_All(iMarker) ==
  ForEachIndex([iVertex \in 0 .. GetNumberMarkerVertices(iMarker) - 1 |->
                  GetMarkerHeatFluxes(iMarker, iVertex)])

GetMarkerNormalHeatFluxes_All(iMarker) ==
  ForEachIndex([iVertex \in 0 .. GetNumberMarkerVertices(iMarker) - 1 |->
                  GetMarkerNormalHeatFluxes(iMarker, iVertex)])

GetThermalConductivities_All ==
  ForEachIndex([iPoint \in 0 .. GetNumberVertices - 1 |->
                  GetThermalConductivities(iPoint)])

GetMarkerThermalConductivities_All(iMarker) ==
  ForEachIndex([iVertex \in 0 .. GetNumberMarkerVertices(iMarker) - 1 |->
                  GetMarkerThermalConductivities(iMarker, iVertex)])

GetLaminarViscosities_All ==
  ForEachIndex([iPoint \in 0 .. GetNumberVertices - 1 |->
                  GetLaminarViscosities(iPoint)])

\* The loop over the vertices handing the vertex index to the per-point
\* overload, as a point index.
GetMarkerLaminarViscosities_All_ByPoint(iMarker) ==
  ForEachIndex([iVertex \in 0 .. GetNumberMarkerVertices(iMarker) - 1 |->
                  GetLaminarViscosities(iVertex)])

GetMarkerLaminarViscosities_All(iMarker) ==
  ForEachIndex([iVertex \in 0 .. GetNumberMarkerVertices(iMarker) - 1 |->
                  GetMarkerLaminarViscosities(iMarker, iVertex)])

GetEddyViscosities_All ==
  ForEachIndex([iPoint \in 0 .. GetNumberVertices - 1 |-> GetEddyViscosities(iPoint)])

\* values.push_back(GetMarkerLaminarViscosities(iMarker, iVertex))
GetMarkerEddyViscosities_All(iMarker) ==
  ForEachIndex([iVertex \in 0 .. GetNumberMarkerVertices(iMarker) - 1 |->
                  GetMarkerLaminarViscosities(iMarker, iVertex)])

(***************************************************************************)
(* CDriver: the accessors of the nonequilibrium flow solver.               *)
(***************************************************************************)

GetNonequilibriumMassFractions(iPoint) ==
  IF ~main_config.NEMOProblem
  THEN { Error("Nonequilibrium flow solver is not defined!") }
  ELSE IF iPoint >= GetNumberVertices
  THEN { Error("Vertex index exceeds size.") }
  ELSE { IF rho_s.kind # "return" THEN rho_s
         ELSE IF rho_t.kind # "return" THEN [rho_t EXCEPT !.reads = @ \cup rho_s.reads]
         ELSE Return([k \in 1 .. nSpeciesNEMO |->
                        <<"rho_s / rho_t", rho_s.value[k], rho_t.value>>],
                     rho_s.reads \cup rho_t.reads) :
           rho_s \in ReadPoints("FLOW_SOL", "GetSolution",
                                Each(iPoint, nSpeciesNEMO)),
           rho_t \in ReadPoint("FLOW_SOL", "GetDensity", <<iPoint>>) }

(***************************************************************************)
(* CDriver: calls of the accessors.                                        *)
(***************************************************************************)

\* Before the first call.
NoCall == [op |-> "", args |-> << >>, kind |-> "return", msg |-> "",
           value |-> NoValue, reads |-> {}, writes |-> {}]

InitDriver ==
  /\ main_config \in DriverConfigs
  /\ nPoint \in 1 .. MaxPoints
  /\ vertex = MeshOf(nPoint)
  /\ AdjointVertexTractions =
       [iMarker \in Markers |->
          [iVertex \in DOMAIN vertex[iMarker] |-> [iDim \in 0 .. nDim - 1 |-> 0]]]
  /\ CustomBoundaryHeatFlux =
       [iMarker \in Markers |-> [iVertex \in DOMAIN vertex[iMarker] |-> 0]]
  /\ Adjoint_SourceTerm =
       [iPoint \in 0 .. nPoint - 1 |-> [iVar \in 0 .. nVar - 1 |-> 0]]
  /\ result = NoCall
  /\ config = << >>
  /\ FluidUnconstructed

\* SU2_MPI::Error and a crash end the run.
Running == result.kind \notin {"error", "crash"}

\* No call is in progress: the caller holds no result of the driver.
Idle == result = NoCall

\* An array after the stores writes made through the setter named array.
AfterWrites(old, array, index, writes) ==
  IF \E w \in writes : w[1] = array /\ w[2] = index
  THEN (CHOOSE w \in writes : w[1] = array /\ w[2] = index)[3]
  ELSE old

\* A call of the accessor op with the arguments args, ending in one of outs;
\* result holds how it ended until the caller has taken it.
Invoke(op, args, outs) ==
  /\ Idle
  /\ \E o \in outs :
       /\ result' = [op |-> op, args |-> args, kind |-> o.kind, msg |-> o.msg,
                     value |-> o.value, reads |-> o.reads, writes |-> o.writes]
       /\ AdjointVertexTractions' =
            [iMarker \in Markers |->
               [iVertex \in DOMAIN vertex[iMarker] |->
                  [iDim \in 0 .. nDim - 1 |->
                     AfterWrites(AdjointVertexTractions[iMarker][iVertex][iDim],
                                 "StoreVertexTractionsAdjoint",
                                 <<iMarker, iVertex, iDim>>, o.writes)]]]
       /\ CustomBoundaryHeatFlux' =
            [iMarker \in Markers |->
               [iVertex \in DOMAIN vertex[iMarker] |->
                  AfterWrites(CustomBoundaryHeatFlux[iMarker][iVertex],
                              "SetCustomBoundaryHeatFlux",
                              <<iMarker, iVertex>>, o.writes)]]
       /\ Adjoint_SourceTerm' =
            [iPoint \in 0 .. nPoint - 1 |->
               [iVar \in 0 .. nVar - 1 |->
                  AfterWrites(Adjoint_SourceTerm[iPoint][iVar],
                              "SetAdjoint_SourceTerm", <<iPoint, iVar>>,
                              o.writes)]]
  /\ UNCHANGED <<main_config, nPoint, vertex>>
  /\ UNCHANGED fluidVars

\* The caller takes what a call returned and goes on.
ReturnToCaller ==
  /\ ~Idle
  /\ Running
  /\ result' = NoCall
  /\ UNCHANGED <<main_config, nPoint, vertex, AdjointVertexTractions,
                 CustomBoundaryHeatFlux, Adjoint_SourceTerm>>
  /\ UNCHANGED fluidVars

CallGetNumberStateVariables ==
  Invoke("GetNumberStateVariables", << >>, GetNumberStateVariables)

CallGetNumberPrimitiveVariables ==
  Invoke("GetNumberPrimitiveVariables", << >>, GetNumberPrimitiveVariables)

CallGetSpeedOfSound(iPoint) ==
  Invoke("GetSpeedOfSound", <<iPoint>>, GetSpeedOfSound(iPoint))

CallGetMarkerSpeedOfSound(iMarker, iVertex) ==
  Invoke("GetMarkerSpeedOfSound", <<iMarker, iVertex>>,
         GetMarkerSpeedOfSound(iMarker, iVertex))

CallGetMarkerAdjointForces(iMarker, iVertex) ==
  Invoke("GetMarkerAdjointForces", <<iMarker, iVertex>>,
         GetMarkerAdjointForces(iMarker, iVertex))

CallSetMarkerAdjointForces(iMarker, iVertex, values) ==
  Invoke("SetMarkerAdjointForces", <<iMarker, iVertex, values>>,
         SetMarkerAdjointForces(iMarker, iVertex, values))

CallSetMarkerAdjointForces_All(iMarker, values) ==
  Invoke("SetMarkerAdjointForces_All", <<iMarker, values>>,
         SetMarkerAdjointForces_All(iMarker, values))

CallGetPointSensitivities(getter, iPoint) ==
  Invoke(getter.name, <<iPoint>>, GetPointSensitivities(getter, iPoint))

CallGetMarkerSensitivities(getter, iMarker, iVertex) ==
  Invoke(getter.name, <<iMarker, iVertex>>,
         GetMarkerSensitivities(getter, iMarker, iVertex))

CallGetFarfieldVariablesSensitivities(getter) ==
  Invoke(getter.name, << >>, GetFarfieldVariablesSensitivities(getter))

CallSetAdjointSourceTerm(values) ==
  Invoke("SetAdjointSourceTerm", <<values>>, SetAdjointSourceTerm(values))

CallGetHeatFluxes(iPoint) ==
  Invoke("GetHeatFluxes", <<iPoint>>, GetHeatFluxes(iPoint))

CallGetMarkerHeatFluxes(iMarker, iVertex) ==
  Invoke("GetMarkerHeatFluxes", <<iMarker, iVertex>>,
         GetMarkerHeatFluxes(iMarker, iVertex))

CallGetMarkerNormalHeatFluxes(iMarker, iVertex) ==
  Invoke("GetMarkerNormalHeatFluxes", <<iMarker, iVertex>>,
         GetMarkerNormalHeatFluxes(iMarker, iVertex))

CallSetMarkerNormalHeatFluxes(iMarker, iVertex, value) ==
  Invoke("SetMarkerNormalHeatFluxes", <<iMarker, iVertex, value>>,
         SetMarkerNormalHeatFluxes(iMarker, iVertex, value))

CallSetMarkerNormalHeatFluxes_All(iMarker, values) ==
  Invoke("SetMarkerNormalHeatFluxes_All", <<iMarker, values>>,
         SetMarkerNormalHeatFluxes_All(iMarker, values))

CallGetThermalConductivities(iPoint) ==
  Invoke("GetThermalConductivities", <<iPoint>>, GetThermalConductivities(iPoint))

CallGetMarkerThermalConductivities(iMarker, iVertex) ==
  Invoke("GetMarkerThermalConductivities", <<iMarker, iVertex>>,
         GetMarkerThermalConductivities(iMarker, iVertex))

CallGetLaminarViscosities(iPoint) ==
  Invoke("GetLaminarViscosities", <<iPoint>>, GetLaminarViscosities(iPoint))

CallGetMarkerLaminarViscosities(iMarker, iVertex) ==
  Invoke("GetMarkerLaminarViscosities", <<iMarker, iVertex>>,
         GetMarkerLaminarViscosities(iMarker, iVertex))

CallGetEddyViscosities(iPoint) ==
  Invoke("GetEddyViscosities", <<iPoint>>, GetEddyViscosities(iPoint))

CallGetMarkerEddyViscosities(iMarker, iVertex) ==
  Invoke("GetMarkerEddyViscosities", <<iMarker, iVertex>>,
         GetMarkerEddyViscosities(iMarker, iVertex))

CallGetHeatFluxes_All ==
  Invoke("GetHeatFluxes_All", << >>, GetHeatFluxes_All)

CallGetMarkerHeatFluxes_All(iMarker) ==
  Invoke("GetMarkerHeatFluxes_All", <<iMarker>>, GetMarkerHeatFluxes_All(iMarker))

CallGetMarkerNormalHeatFluxes_All(iMarker) ==
  Invoke("GetMarkerNormalHeatFluxes_All", <<iMarker>>,
         GetMarkerNormalHeatFluxes_All(iMarker))

CallGetThermalConductivities_All ==
  Invoke("GetThermalConductivities_All", << >>, GetThermalConductivities_All)

CallGetMarkerThermalConductivities_All(iMarker) ==
  Invoke("GetMarkerThermalConductivities_All", <<iMarker>>,
         GetMarkerThermalConductivities_All(iMarker))

CallGetLaminarViscosities_All ==
  Invoke("GetLaminarViscosities_All", << >>, GetLaminarViscosities_All)

CallGetMarkerLaminarViscosities_All(iMarker) ==
  Invoke("GetMarkerLaminarViscosities_All", <<iMarker>>,
         GetMarkerLaminarViscosities_All(iMarker))

CallGetEddyViscosities_All ==
  Invoke("GetEddyViscosities_All", << >>, GetEddyViscosities_All)

CallGetMarkerEddyViscosities_All(iMarker) ==
  Invoke("GetMarkerEddyViscosities_All", <<iMarker>>,
         GetMarkerEddyViscosities_All(iMarker))

CallGetNonequilibriumMassFractions(iPoint) ==
  Invoke("GetNonequilibriumMassFractions", <<iPoint>>,
         GetNonequilibriumMassFractions(iPoint))

NextDriver ==
  \/ CallGetNumberStateVariables
  \/ CallGetNumberPrimitiveVariables
  \/ \E iPoint \in PointIndices : CallGetSpeedOfSound(iPoint)
  \/ \E iMarker \in Markers, iVertex \in VertexIndices :
       CallGetMarkerSpeedOfSound(iMarker, iVertex)
  \/ \E iMarker \in Markers, iVertex \in VertexIndices :
       CallGetMarkerAdjointForces(iMarker, iVertex)
  \/ \E iMarker \in Markers, iVertex \in VertexIndices, values \in ForceValues :
       CallSetMarkerAdjointForces(iMarker, iVertex, values)
  \/ \E iMarker \in Markers, values \in ForceMatrices :
       CallSetMarkerAdjointForces_All(iMarker, values)
  \/ \E getter \in PointSensitivityGetters, iPoint \in PointIndices :
       CallGetPointSensitivities(getter, iPoint)
  \/ \E getter \in MarkerSensitivityGetters, iMarker \in Markers,
        iVertex \in VertexIndices :
       CallGetMarkerSensitivities(getter, iMarker, iVertex)
  \/ \E getter \in FarfieldSensitivityGetters :
       CallGetFarfieldVariablesSensitivities(getter)
  \/ \E values \in SourceValues : CallSetAdjointSourceTerm(values)
  \/ \E iPoint \in PointIndices : CallGetHeatFluxes(iPoint)
  \/ \E iMarker \in Markers, iVertex \in VertexIndices :
       CallGetMarkerHeatFluxes(iMarker, iVertex)
  \/ \E iMarker \in Markers, iVertex \in VertexIndices :
       CallGetMarkerNormalHeatFluxes(iMarker, iVertex)
  \/ \E iMarker \in Markers, iVertex \in VertexIndices, value \in HeatFluxValues :
       CallSetMarkerNormalHeatFluxes(iMarker, iVertex, value)
  \/ \E iMarker \in Markers, values \in HeatFluxVectors :
       CallSetMarkerNormalHeatFluxes_All(iMarker, values)
  \/ \E iPoint \in PointIndices : CallGetThermalConductivities(iPoint)
  \/ \E iMarker \in Markers, iVertex \in VertexIndices :
       CallGetMarkerThermalConductivities(iMarker, iVertex)
  \/ \E iPoint \in PointIndices : CallGetLaminarViscosities(iPoint)
  \/ \E iMarker \in Markers, iVertex \in VertexIndices :
       CallGetMarkerLaminarViscosities(iMarker, iVertex)
  \/ \E iPoint \in PointIndices : CallGetEddyViscosities(iPoint)
  \/ \E iMarker \in Markers, iVertex \in VertexIndices :
       CallGetMarkerEddyViscosities(iMarker, iVertex)
  \/ CallGetHeatFluxes_All
  \/ \E iMarker \in Markers : CallGetMarkerHeatFluxes_All(iMarker)
  \/ \E iMarker \in Markers : CallGetMarkerNormalHeatFluxes_All(iMarker)
  \/ CallGetThermalConductivities_All
  \/ \E iMarker \in Markers : CallGetMarkerThermalConductivities_All(iMarker)
  \/ CallGetLaminarViscosities_All
  \/ \E iMarker \in Markers : CallGetMarkerLaminarViscosities_All(iMarker)
  \/ CallGetEddyViscosities_All
  \/ \E iMarker \in Markers : CallGetMarkerEddyViscosities_All(iMarker)
  \/ \E iPoint \in PointIndices : CallGetNonequilibriumMassFractions(iPoint)
  \/ ReturnToCaller

SpecDriver == InitDriver /\ [][NextDriver]_vars

(***************************************************************************)
(* Properties of the accessors of CDriver.                                 *)
(***************************************************************************)

\* The accessors that take a point index.
PerPointAccessors ==
  { "GetSpeedOfSound", "GetHeatFluxes", "GetThermalConductivities",
    "GetLaminarViscosities", "GetEddyViscosities",
    "GetNonequilibriumMassFractions" }
  \cup { getter.name : getter \in PointSensitivityGetters }

\* The accessors that take a marker and a vertex index.
MarkerVertexAccessors ==
  { "GetMarkerSpeedOfSound", "GetMarkerAdjointForces", "SetMarkerAdjointForces",
    "GetMarkerHeatFluxes", "GetMarkerNormalHeatFluxes",
    "SetMarkerNormalHeatFluxes", "GetMarkerThermalConductivities",
    "GetMarkerLaminarViscosities", "GetMarkerEddyViscosities" }
  \cup { getter.name : getter \in MarkerSensitivityGetters }

\* The last call passed a point index that is not below GetNumberVertices().
PointOutOfRange ==
  result.op \in PerPointAccessors /\ result.args[1] >= nPoint

\* The last call passed a vertex index that is not below
\* GetNumberMarkerVertices(iMarker).
VertexOutOfRange ==
  /\ result.op \in MarkerVertexAccessors
  /\ result.args[2] >= Size(vertex[result.args[1]])

\* C7: a per-point accessor called with iPoint >= GetNumberVertices() ends
\* in an error and has read no entry of a solver array.
C7_PointIndexGuard ==
  PointOutOfRange => result.kind = "error" /\ result.reads = {}

\* C7 witness: GetNonequilibriumMassFractions of a nonequilibrium problem,
\* called with the index one past the last point, was refused for its index.
C7_Witness ==
  /\ result.op = "GetNonequilibriumMassFractions"
  /\ main_config.NEMOProblem
  /\ result.args[1] = nPoint
  /\ result.msg = "Vertex index exceeds size."

\* C8: an accessor taking (iMarker, iVertex), called with
\* iVertex >= GetNumberMarkerVertices(iMarker), ends in an error without
\* having read or written any entry of a solver or geometry array.
C8_VertexIndexGuard ==
  VertexOutOfRange =>
    result.kind = "error" /\ result.reads = {} /\ result.writes = {}

\* C8 witness: GetMarkerNormalHeatFluxes of a fluid problem, called with the
\* index one past the last vertex of the marker, was refused for its index.
C8_Witness ==
  /\ result.op = "GetMarkerNormalHeatFluxes"
  /\ main_config.FluidProblem
  /\ result.args[2] = Size(vertex[result.args[1]])
  /\ result.msg = "Vertex index exceeds marker size."

\* The accessors C9 names.
FlowCheckedAccessors ==
  { "GetNumberStateVariables", "GetNumberPrimitiveVariables", "GetHeatFluxes",
    "GetThermalConductivities", "GetLaminarViscosities", "GetEddyViscosities",
    "SetMarkerNormalHeatFluxes" }

\* C9: each of these accessors ends with "Flow solver is not defined!"
\* exactly when main_config is not a fluid problem, an index out of range
\* included: the check comes before the index-range check.
C9_FlowSolverCheck ==
  result.op \in FlowCheckedAccessors =>
    ( (result.kind = "error" /\ result.msg = "Flow solver is not defined!")
      <=> ~main_config.FluidProblem )

\* C9 witness: GetHeatFluxes without a fluid problem and with an index out
\* of range reported the missing flow solver, not the index.
C9_Witness ==
  /\ result.op = "GetHeatFluxes"
  /\ ~main_config.FluidProblem
  /\ result.args[1] >= nPoint
  /\ result.msg = "Flow solver is not defined!"

\* C10: for a fluid problem and an index in range, GetSpeedOfSound(iPoint)
\* and GetMarkerSpeedOfSound(iMarker, iVertex) return the flow solver's sound
\* speed at the addressed point; they end with "Flow solver is not defined!"
\* only when main_config is not a fluid problem.
C10_SpeedOfSound ==
  /\ ( /\ result.op = "GetSpeedOfSound"
       /\ main_config.FluidProblem
       /\ result.args[1] < nPoint )
     => /\ result.kind = "return"
        /\ result.value = Stored("GetSoundSpeed", <<result.args[1]>>)
  /\ ( /\ result.op = "GetMarkerSpeedOfSound"
       /\ main_config.FluidProblem
       /\ result.args[2] < Size(vertex[result.args[1]]) )
     => /\ result.kind = "return"
        /\ result.value =
             Stored("GetSoundSpeed", <<vertex[result.args[1]][result.args[2]]>>)
  /\ ( /\ result.op \in {"GetSpeedOfSound", "GetMarkerSpeedOfSound"}
       /\ result.msg = "Flow solver is not defined!" )
     => ~main_config.FluidProblem

\* The accessors of the residual-based discrete adjoint.
ResidualAdjointAccessors ==
  { getter.name : getter \in PointSensitivityGetters }
  \cup { getter.name : getter \in MarkerSensitivityGetters }
  \cup { getter.name : getter \in FarfieldSensitivityGetters }
  \cup { "SetAdjointSourceTerm" }

C13_SetMarkerAdjointForces ==
  /\ ( /\ result.op = "SetMarkerAdjointForces"
       /\ main_config.FluidProblem /\ main_config.Discrete_Adjoint
       /\ result.args[2] < Size(vertex[result.args[1]])
       /\ Size(result.args[3]) = nDim )
     => /\ result.kind = "return"
        /\ result.writes =
             { <<"StoreVertexTractionsAdjoint",
                 <<result.args[1], result.args[2], iDim>>, result.args[3][iDim]>> :
               iDim \in 0 .. nDim - 1 }
        /\ \A iDim \in 0 .. nDim - 1 :
             AdjointVertexTractions[result.args[1]][result.args[2]][iDim]
               = result.args[3][iDim]
  /\ ( /\ result.op = "SetMarkerAdjointForces_All"
       /\ main_config.FluidProblem /\ main_config.Discrete_Adjoint
       /\ Size(result.args[2]) = Size(vertex[result.args[1]]) )
     => /\ result.kind = "return"
        /\ \A iVertex \in DOMAIN vertex[result.args[1]], iDim \in 0 .. nDim - 1 :
             AdjointVertexTractions[result.args[1]][iVertex][iDim]
               = result.args[2][iVertex][iDim]

WholeFieldGetters ==
  { "GetHeatFluxes_All", "GetThermalConductivities_All",
    "GetLaminarViscosities_All", "GetEddyViscosities_All" }
MarkerWideGetters ==
  { "GetMarkerHeatFluxes_All", "GetMarkerNormalHeatFluxes_All",
    "GetMarkerThermalConductivities_All", "GetMarkerLaminarViscosities_All" }

\* The ways the indexed overload of such a getter ends for the index k.
IndexedOverload(op, args, k) ==
  CASE op = "GetHeatFluxes_All" -> GetHeatFluxes(k)
    [] op = "GetThermalConductivities_All" -> GetThermalConductivities(k)
    [] op = "GetLaminarViscosities_All" -> GetLaminarViscosities(k)
    [] op = "GetEddyViscosities_All" -> GetEddyViscosities(k)
    [] op = "GetMarkerHeatFluxes_All" -> GetMarkerHeatFluxes(args[1], k)
    [] op = "GetMarkerNormalHeatFluxes_All" -> GetMarkerNormalHeatFluxes(args[1], k)
    [] op = "GetMarkerThermalConductivities_All" ->
         GetMarkerThermalConductivities(args[1], k)
    [] op = "GetMarkerLaminarViscosities_All" ->
         GetMarkerLaminarViscosities(args[1], k)
    [] op = "GetMarkerEddyViscosities_All" -> GetMarkerEddyViscosities(args[1], k)

\* C15: each of these getters, called without an index on a fluid problem,
\* returns; what it returns has GetNumberVertices() entries (for a
\* marker-wide getter GetNumberMarkerVertices(iMarker) entries), and entry k is
\* what the indexed overload of the same getter returns for the index k.
C15_WholeFieldGetters ==
  result.op \in WholeFieldGetters \cup MarkerWideGetters =>
    LET entries == IF result.op \in WholeFieldGetters THEN nPoint
                   ELSE Size(vertex[result.args[1]])
    IN  /\ main_config.FluidProblem => result.kind = "return"
        /\ result.kind = "return" =>
             /\ Len(result.value) = entries
             /\ \A k \in 0 .. entries - 1 :
                  \E o \in IndexedOverload(result.op, result.args, k) :
                    o.kind = "return" /\ o.value = result.value[k + 1]

\* C15 witness: GetMarkerThermalConductivities(iMarker) on a marker of two
\* vertices returned two different entries, the second the conductivity at
\* the point of the second vertex.
C15_Witness ==
  /\ result.op = "GetMarkerThermalConductivities_All"
  /\ result.kind = "return"
  /\ Size(vertex[result.args[1]]) = 2
  /\ Len(result.value) = 2
  /\ result.value[1] # result.value[2]
  /\ result.value[2] =
       ThermalConductivityOf(Stored("GetLaminarViscosity",
                                    <<vertex[result.args[1]][1]>>))

\* C16: GetMarkerEddyViscosities(iMarker) on a fluid problem returns one
\* entry per vertex of the marker, and entry v is what
\* GetMarkerEddyViscosities(iMarker, v) returns: the flow solver's eddy
\* viscosity at the point of vertex v.
C16_MarkerEddyViscosities ==
  result.op = "GetMarkerEddyViscosities_All" =>
    /\ main_config.FluidProblem => result.kind = "return"
    /\ result.kind = "return" =>
         /\ Len(result.value) = Size(vertex[result.args[1]])
         /\ \A v \in DOMAIN vertex[result.args[1]] :
              /\ result.value[v + 1] =
                   Stored("GetEddyViscosity", <<vertex[result.args[1]][v]>>)
              /\ \E o \in IndexedOverload(result.op, result.args, v) :
                   o.kind = "return" /\ o.value = result.value[v + 1]

====
